---- MODULE Spec2Model ----
(***************************************************************************)
(* Presence-and-messaging relay of src/server.js (Socket.io handlers,      *)
(* lines 32-121).                                                          *)
(*                                                                         *)
(* The server keeps one Map `users` keyed by socket id.  Each handler runs *)
(* to completion on the Node event loop, so every handler is one atomic    *)
(* action.  The transport (Socket.io) is modelled by what the handlers use *)
(* of it: the set of live sockets (io.sockets.sockets), io.emit,           *)
(* socket.emit, socket.broadcast.emit and socket.to(room).emit, every      *)
(* socket being the only member of the room named by its own id.           *)
(*                                                                         *)
(* Time is kept relative: a pending setTimeout carries the time that is    *)
(* left until it is due.  The `timestamp: new Date()` field of the         *)
(* payloads is a wall-clock read that no handler ever reads back; it is    *)
(* left out of the payloads.                                               *)
(***************************************************************************)
EXTENDS Naturals, Integers, Sequences, FiniteSets, TLC

\* ---------------------------------------------------------------- bounds
\* number of socket ids the transport may hand out
MaxSockets == 2
\* amount of time one Tick lets pass, in ms
TickMs == 30000

\* SpecRecovery: number of socket ids the transport may hand out
MaxRecoverySockets == 1
\* SpecRecovery: a closed session is restored only while at most this many
\* timeouts are pending
MaxPending == 2

\* ------------------------------------------------------ program constants
\* setTimeout(..., 60000)
GRACE_MS == 60000

AllIds == <<"s1", "s2", "s3", "s4", "s5">>
Ids == {AllIds[i] : i \in 1..MaxSockets}

\* display names a client may announce: a name, and the empty string, which
\* is a falsy username
Names == {"alice", ""}
\* message bodies
Messages == {"hi"}
\* a falsy `to` (undefined / empty string)
NoTarget == ""
\* a `to` that names no socket at all
NoSuchSocket == "nobody"
\* values of data.to a client may send: nothing, a socket id (live, closed
\* or never issued), or a string that is no socket id
Targets == Ids \cup {NoTarget, NoSuchSocket}

VARIABLES
    sockets,    \* io.sockets.sockets: ids of the live sockets
    issued,     \* number of socket ids handed out so far
    users,      \* the Map `users`, as the sequence of its entries in
                \* insertion order: [id, username, status]
    timers,     \* pending setTimeout callbacks, oldest first: [id, left]
    out,        \* emit calls made by the last handler, in call order:
                \* [event, payload, recipients]
    last,       \* the event the last handler ran for
    joined,     \* history: ids that joined and were not removed since
    elapsed     \* history: time since the id's latest disconnect that
                \* found a record (capped at GRACE_MS), -1 if none

vars == <<sockets, issued, users, timers, out, last, joined, elapsed>>

\* ------------------------------------------------------------ Map helpers
\* index of the entry of key id, 0 if absent
IndexOf(u, id) ==
    IF \E i \in 1..Len(u) : u[i].id = id
    THEN CHOOSE i \in 1..Len(u) : u[i].id = id
    ELSE 0

\* users.has(id)
UsersHas(u, id) == \E i \in 1..Len(u) : u[i].id = id

\* users.get(id), for a key that is present
UsersGet(u, id) == u[IndexOf(u, id)]

\* users.set(id, {username, status}): an existing key keeps its position,
\* a new key goes last
UsersSet(u, id, username, status) ==
    LET e == [id |-> id, username |-> username, status |-> status]
    IN  IF UsersHas(u, id)
        THEN [u EXCEPT ![IndexOf(u, id)] = e]
        ELSE Append(u, e)

\* users.delete(id)
UsersDelete(u, id) == SelectSeq(u, LAMBDA e : e.id # id)

\* Array.from(users.entries()).map(([id, user]) => ({id, username, status}))
UsersList(u) ==
    [i \in 1..Len(u) |->
        [id |-> u[i].id, username |-> u[i].username, status |-> u[i].status]]

\* ------------------------------------------------------------- transport
\* io.emit: every live socket
IoAll(socks) == socks

\* socket.emit: the socket itself
SocketSelf(socks, id) == {id}

\* mutant: the private branch addresses the room with io.to(to)
SocketTo_IncludeSender(socks, id, to) == socks \cap {to}

\* mutant: the sender is not left out
SocketBroadcast_All(socks, id) == socks

\* socket.broadcast: every live socket but the sender
SocketBroadcast(socks, id) == socks \ {id}

\* socket.to(room): the live members of the room, but the sender; the only
\* rooms are the sockets' own ids
SocketTo(socks, id, to) == (socks \cap {to}) \ {id}

Emit(event, payload, recipients) ==
    [event |-> event, payload |-> payload, recipients |-> recipients]

\* ------------------------------------------------------- handler effects
\* mutant: a join deletes the old record and inserts the new one
JoinUsers_Reinsert(u, id, username) ==
    Append(UsersDelete(u, id),
           [id |-> id, username |-> username, status |-> "online"])

\* mutant: a join does not overwrite the record the socket already has
JoinUsers_KeepOld(u, id, username) ==
    IF UsersHas(u, id) THEN u ELSE UsersSet(u, id, username, "online")

\* socket.on('user_connected'): users.set(socket.id, {username, status:'online'})
JoinUsers(u, id, username) == UsersSet(u, id, username, "online")

\* mutant: the list is read before the record of the joiner is written
JoinOut_ListBeforeSet(u, socks, id, username) ==
    << Emit("user_status_changed",
            [userId |-> id, username |-> username, status |-> "online"],
            socks),
       Emit("users_list", UsersList(u), {id}) >>

\* mutant: the status change goes out with socket.broadcast.emit
JoinOut_StatusBroadcast(u, socks, id, username) ==
    << Emit("user_status_changed",
            [userId |-> id, username |-> username, status |-> "online"],
            socks \ {id}),
       Emit("users_list", UsersList(UsersSet(u, id, username, "online")),
            {id}) >>

\* socket.on('user_connected'): io.emit('user_status_changed', ...) and then
\* socket.emit('users_list', ...), the list read after the set
JoinOut(u, socks, id, username) ==
    << Emit("user_status_changed",
            [userId |-> id, username |-> username, status |-> "online"],
            IoAll(socks)),
       Emit("users_list", UsersList(JoinUsers(u, id, username)),
            SocketSelf(socks, id)) >>

\* sender?.username || 'Unknown'
SenderName(u, id) ==
    IF UsersHas(u, id) /\ UsersGet(u, id).username # ""
    THEN UsersGet(u, id).username
    ELSE "Unknown"

\* mutant: a message whose target is not live is broadcast instead
SendMessageOut_FallbackBroadcast(u, socks, id, to, message) ==
    << Emit("receive_message",
            [from |-> id,
             username |-> IF UsersHas(u, id) /\ UsersGet(u, id).username # ""
                          THEN UsersGet(u, id).username ELSE "Unknown",
             message |-> message, isPrivate |-> (to # NoTarget)],
            IF to \in socks THEN {to} \ {id} ELSE socks \ {id}) >>

\* mutant: the private branch emits with io.emit
SendMessageOut_PrivateToAll(u, socks, id, to, message) ==
    IF to # NoTarget
    THEN << Emit("receive_message",
                 [from |-> id,
                  username |-> IF UsersHas(u, id) /\ UsersGet(u, id).username # ""
                               THEN UsersGet(u, id).username ELSE "Unknown",
                  message |-> message, isPrivate |-> TRUE],
                 socks) >>
    ELSE << Emit("receive_message",
                 [from |-> id,
                  username |-> IF UsersHas(u, id) /\ UsersGet(u, id).username # ""
                               THEN UsersGet(u, id).username ELSE "Unknown",
                  message |-> message, isPrivate |-> FALSE],
                 socks \ {id}) >>

\* socket.on('send_message'): private branch when `to` is truthy, broadcast
\* branch otherwise
SendMessageOut(u, socks, id, to, message) ==
    IF to # NoTarget
    THEN << Emit("receive_message",
                 [from |-> id, username |-> SenderName(u, id),
                  message |-> message, isPrivate |-> TRUE],
                 SocketTo(socks, id, to)) >>
    ELSE << Emit("receive_message",
                 [from |-> id, username |-> SenderName(u, id),
                  message |-> message, isPrivate |-> FALSE],
                 SocketBroadcast(socks, id)) >>

\* mutant: the typing event is relayed without looking for the record
TypingOut_NoGuard(u, socks, id, isTyping) ==
    << Emit("user_typing",
            [userId |-> id,
             username |-> IF UsersHas(u, id) THEN UsersGet(u, id).username
                          ELSE "Unknown",
             isTyping |-> isTyping],
            socks \ {id}) >>

\* socket.on('typing'): nothing unless users.get(socket.id) is an object
TypingOut(u, socks, id, isTyping) ==
    IF UsersHas(u, id)
    THEN << Emit("user_typing",
                 [userId |-> id, username |-> UsersGet(u, id).username,
                  isTyping |-> isTyping],
                 SocketBroadcast(socks, id)) >>
    ELSE << >>

\* mutant: the disconnect handler leaves the status as it is
DisconnectUsers_KeepStatus(u, id) == u

\* mutant: the disconnect handler deletes the record at once
DisconnectUsers_Delete(u, id) == UsersDelete(u, id)

\* socket.on('disconnect'): users.set(socket.id, {...user, status:'offline'})
DisconnectUsers(u, id) ==
    IF UsersHas(u, id)
    THEN UsersSet(u, id, UsersGet(u, id).username, "offline")
    ELSE u

\* mutant: the disconnect is announced without looking for the record
DisconnectOut_NoGuard(u, socks, id) ==
    << Emit("user_status_changed",
            [userId |-> id,
             username |-> IF UsersHas(u, id) THEN UsersGet(u, id).username
                          ELSE "Unknown",
             status |-> "offline"],
            socks) >>

\* socket.on('disconnect'): io.emit('user_status_changed', ...); socks are
\* the sockets that are live once this one is gone
DisconnectOut(u, socks, id) ==
    IF UsersHas(u, id)
    THEN << Emit("user_status_changed",
                 [userId |-> id, username |-> UsersGet(u, id).username,
                  status |-> "offline"],
                 IoAll(socks)) >>
    ELSE << >>

\* mutant: the disconnect handler sets no timeout
DisconnectTimers_None(u, tm, id) == tm

\* mutant: the timeout is set outside the `if (user)` block
DisconnectTimers_Always(u, tm, id) ==
    Append(tm, [id |-> id, left |-> GRACE_MS])

\* mutant: the timeout is set without its delay
DisconnectTimers_NoDelay(u, tm, id) ==
    IF UsersHas(u, id) THEN Append(tm, [id |-> id, left |-> 0]) ELSE tm

\* socket.on('disconnect'): setTimeout(..., 60000)
DisconnectTimers(u, tm, id) ==
    IF UsersHas(u, id)
    THEN Append(tm, [id |-> id, left |-> GRACE_MS])
    ELSE tm

\* mutant: the callback deletes without asking whether the socket is live
TimeoutUsers_NoCheck(u, socks, id) == UsersDelete(u, id)

\* mutant: the liveness test of the callback is inverted
TimeoutUsers_Inverted(u, socks, id) ==
    IF id \in socks THEN UsersDelete(u, id) ELSE u

\* the setTimeout callback: if (!io.sockets.sockets.has(socket.id)) users.delete
TimeoutUsers(u, socks, id) ==
    IF id \notin socks THEN UsersDelete(u, id) ELSE u

\* a timer may run once its delay has passed
TimerDue(t) == t.left = 0

\* ---------------------------------------------------------------- actions
NoLast == [op |-> "init", id |-> "", username |-> "", to |-> "",
           message |-> "", isTyping |-> FALSE]

Init ==
    /\ sockets = {}
    /\ issued = 0
    /\ users = << >>
    /\ timers = << >>
    /\ out = << >>
    /\ last = NoLast
    /\ joined = {}
    /\ elapsed = [i \in Ids |-> -1]

\* mutant: the connection handler registers the socket before any join
Connect_Registers ==
    /\ issued < MaxSockets
    /\ LET id == AllIds[issued + 1] IN
        /\ sockets' = sockets \cup {id}
        /\ users' = UsersSet(users, id, "Unknown", "online")
        /\ last' = [NoLast EXCEPT !.op = "connect", !.id = id]
    /\ issued' = issued + 1
    /\ out' = << >>
    /\ UNCHANGED <<timers, joined, elapsed>>

\* the transport opens a connection under a fresh id; the connection
\* handler only registers the socket's handlers
Connect ==
    /\ issued < MaxSockets
    /\ LET id == AllIds[issued + 1] IN
        /\ sockets' = sockets \cup {id}
        /\ last' = [NoLast EXCEPT !.op = "connect", !.id = id]
    /\ issued' = issued + 1
    /\ out' = << >>
    /\ UNCHANGED <<users, timers, joined, elapsed>>

Join(id, username) ==
    /\ id \in sockets
    /\ users' = JoinUsers(users, id, username)
    /\ out' = JoinOut(users, sockets, id, username)
    /\ last' = [NoLast EXCEPT !.op = "join", !.id = id, !.username = username]
    /\ joined' = joined \cup {id}
    /\ UNCHANGED <<sockets, issued, timers, elapsed>>

\* mutant: the message handler registers a sender that has no record
SendMessage_Registers(id, to, message) ==
    /\ id \in sockets
    /\ users' = IF UsersHas(users, id) THEN users
                ELSE UsersSet(users, id, "Unknown", "online")
    /\ out' = SendMessageOut(users, sockets, id, to, message)
    /\ last' = [NoLast EXCEPT !.op = "send_message", !.id = id, !.to = to,
                              !.message = message]
    /\ UNCHANGED <<sockets, issued, timers, joined, elapsed>>

SendMessage(id, to, message) ==
    /\ id \in sockets
    /\ out' = SendMessageOut(users, sockets, id, to, message)
    /\ last' = [NoLast EXCEPT !.op = "send_message", !.id = id, !.to = to,
                              !.message = message]
    /\ UNCHANGED <<sockets, issued, users, timers, joined, elapsed>>

Typing(id, isTyping) ==
    /\ id \in sockets
    /\ out' = TypingOut(users, sockets, id, isTyping)
    /\ last' = [NoLast EXCEPT !.op = "typing", !.id = id, !.isTyping = isTyping]
    /\ UNCHANGED <<sockets, issued, users, timers, joined, elapsed>>

\* the socket leaves io.sockets.sockets, then its 'disconnect' handler runs
Disconnect(id) ==
    /\ id \in sockets
    /\ sockets' = sockets \ {id}
    /\ users' = DisconnectUsers(users, id)
    /\ out' = DisconnectOut(users, sockets', id)
    /\ timers' = DisconnectTimers(users, timers, id)
    /\ last' = [NoLast EXCEPT !.op = "disconnect", !.id = id]
    /\ elapsed' = IF UsersHas(users, id) THEN [elapsed EXCEPT ![id] = 0]
                  ELSE elapsed
    /\ UNCHANGED <<issued, joined>>

Min(a, b) == IF a < b THEN a ELSE b
Max(a, b) == IF a > b THEN a ELSE b

\* TickMs pass while some timer is still waiting
Tick ==
    /\ \E i \in 1..Len(timers) : timers[i].left > 0
    /\ timers' = [i \in 1..Len(timers) |->
                    [timers[i] EXCEPT !.left = Max(0, @ - TickMs)]]
    /\ elapsed' = [i \in Ids |->
                    IF elapsed[i] < 0 THEN elapsed[i]
                    ELSE Min(GRACE_MS, elapsed[i] + TickMs)]
    /\ last' = [NoLast EXCEPT !.op = "tick"]
    /\ out' = << >>
    /\ UNCHANGED <<sockets, issued, users, joined>>

\* the oldest pending timeout runs (all delays are equal, so the timers
\* become due in the order they were set)
Timeout ==
    /\ timers # << >>
    /\ TimerDue(Head(timers))
    /\ LET id == Head(timers).id IN
        /\ users' = TimeoutUsers(users, sockets, id)
        /\ last' = [NoLast EXCEPT !.op = "timeout", !.id = id]
        /\ joined' = IF id \notin sockets THEN joined \ {id} ELSE joined
        /\ elapsed' = IF UsersHas(users, id) /\ ~UsersHas(users', id)
                      THEN [elapsed EXCEPT ![id] = -1] ELSE elapsed
    /\ timers' = Tail(timers)
    /\ out' = << >>
    /\ UNCHANGED <<sockets, issued>>

Next ==
    \/ Connect
    \/ \E id \in Ids, username \in Names : Join(id, username)
    \/ \E id \in Ids, to \in Targets, message \in Messages :
            SendMessage(id, to, message)
    \/ \E id \in Ids, isTyping \in BOOLEAN : Typing(id, isTyping)
    \/ \E id \in Ids : Disconnect(id)
    \/ Tick
    \/ Timeout

\* the server as configured (lines 24-30, no connection state recovery):
\* every connection gets a fresh socket id, a closed id never comes back
Spec == Init /\ [][Next]_vars

\* timers run: time passes and a due callback is eventually called
FairSpec == Spec /\ WF_vars(Tick) /\ WF_vars(Timeout)

\* The same handlers on a transport that can restore a closed session under
\* its old socket id (Socket.io connection state recovery), which is the case
\* the liveness test of the timeout callback is there for.  Only the events
\* that write the registry or the timers are interleaved here: joins,
\* disconnects, restored sessions, time and timeouts.
ConnectRecovery == issued < MaxRecoverySockets /\ Connect

\* the session of a closed socket is restored: the id is live again and the
\* connection handler registers its handlers anew; the registry is not touched
Recover(id) ==
    /\ \E i \in 1..issued : AllIds[i] = id
    /\ id \notin sockets
    /\ Len(timers) <= MaxPending
    /\ sockets' = sockets \cup {id}
    /\ last' = [NoLast EXCEPT !.op = "recover", !.id = id]
    /\ out' = << >>
    /\ UNCHANGED <<issued, users, timers, joined, elapsed>>

NextRecovery ==
    \/ ConnectRecovery
    \/ \E id \in Ids : Recover(id)
    \/ \E id \in Ids, username \in Names : Join(id, username)
    \/ \E id \in Ids : Disconnect(id)
    \/ Tick
    \/ Timeout

SpecRecovery == Init /\ [][NextRecovery]_vars

\* ------------------------------------------------------------ observation
\* the emit calls of the last handler that carry `event`
Calls(event) == {i \in 1..Len(out) : out[i].event = event}

\* how many payloads of `event` the last handler delivered to socket c
Delivered(c, event) ==
    Cardinality({i \in Calls(event) : c \in out[i].recipients})

\* ids the transport has handed out
IssuedIds == {AllIds[i] : i \in 1..issued}

\* a timeout is pending for id
Pending(id) == \E i \in 1..Len(timers) : timers[i].id = id

\* ----------------------------------------------------------------- claims

\* C1: right after the join handler ran for socket I with name n, the
\* registry holds exactly one record for I, with status online and
\* username n, and the snapshot of the registry lists I.
C1_JoinWritesOnline ==
    last.op = "join" =>
        /\ UsersHas(users, last.id)
        /\ Cardinality({i \in 1..Len(users) : users[i].id = last.id}) = 1
        /\ UsersGet(users, last.id).status = "online"
        /\ UsersGet(users, last.id).username = last.username
        /\ \E i \in 1..Len(UsersList(users)) :
              UsersList(users)[i] =
                 [id |-> last.id, username |-> last.username,
                  status |-> "online"]

\* a socket that already had a record (it sits before a later entry) has
\* just joined again
C1_Witness ==
    /\ last.op = "join"
    /\ Len(users) = 2
    /\ users[1].id = last.id
    /\ users[1].status = "online"
    /\ users[1].username = last.username

\* C2: the disconnect of a socket that has no record changes neither the
\* registry nor the pending timers and emits nothing.
C2_DisconnectUnjoinedNoOp ==
    [][\A id \in Ids :
          (id \in sockets /\ id \notin sockets' /\ ~UsersHas(users, id)) =>
              /\ users' = users
              /\ timers' = timers
              /\ out' = << >>]_vars

\* an unjoined socket has just disconnected while another one has a record
C2_Witness ==
    /\ last.op = "disconnect"
    /\ ~UsersHas(users, last.id)
    /\ last.id \notin joined
    /\ users # << >>
    /\ out = << >>

\* C3: the disconnect of a joined socket sets its record offline at once,
\* username and position kept, and an offline record leaves the registry
\* only by a timeout of its own socket that runs when the grace interval
\* has passed since that disconnect and the socket is not live.
C3_OfflineUntilGraceElapsed ==
    [][\A id \in Ids :
          /\ (id \in sockets /\ id \notin sockets' /\ UsersHas(users, id)) =>
                /\ UsersHas(users', id)
                /\ IndexOf(users', id) = IndexOf(users, id)
                /\ UsersGet(users', id).status = "offline"
                /\ UsersGet(users', id).username = UsersGet(users, id).username
          /\ (/\ UsersHas(users, id)
              /\ UsersGet(users, id).status = "offline"
              /\ ~UsersHas(users', id)) =>
                /\ last'.op = "timeout"
                /\ last'.id = id
                /\ elapsed[id] >= GRACE_MS
                /\ id \notin sockets
          /\ (/\ UsersHas(users, id)
              /\ UsersGet(users, id).status = "offline"
              /\ elapsed[id] < GRACE_MS) => UsersHas(users', id)]_vars

\* part of the grace interval has passed, another socket has just joined,
\* and the offline record is still there
C3_Witness ==
    \E id \in Ids :
        /\ UsersHas(users, id)
        /\ UsersGet(users, id).status = "offline"
        /\ elapsed[id] > 0
        /\ elapsed[id] < GRACE_MS
        /\ last.op = "join"
        /\ last.id # id

C5_BroadcastAllButSender ==
    (last.op = "send_message" /\ last.to = NoTarget) =>
        /\ Len(out) = 1
        /\ out[1].event = "receive_message"
        /\ out[1].payload.isPrivate = FALSE
        /\ out[1].payload.from = last.id
        /\ out[1].payload.message = last.message
        /\ \A c \in Ids :
              Delivered(c, "receive_message") =
                 IF c \in sockets \ {last.id} THEN 1 ELSE 0

\* a broadcast that reaches the other live socket
C5_Witness ==
    /\ last.op = "send_message"
    /\ last.to = NoTarget
    /\ \E c \in sockets \ {last.id} : Delivered(c, "receive_message") = 1
    /\ Delivered(last.id, "receive_message") = 0

\* C6: the typing handler emits if and only if the socket has a record:
\* without a record it makes no emit call; with a record it makes one,
\* user_typing {userId, username of the record, isTyping}, delivered to
\* every live socket but the sender.
C6_TypingOnlyWithRecord ==
    last.op = "typing" =>
        IF UsersHas(users, last.id)
        THEN /\ Len(out) = 1
             /\ out[1].event = "user_typing"
             /\ out[1].payload =
                   [userId |-> last.id,
                    username |-> UsersGet(users, last.id).username,
                    isTyping |-> last.isTyping]
             /\ \A c \in Ids :
                   Delivered(c, "user_typing") =
                      IF c \in sockets \ {last.id} THEN 1 ELSE 0
        ELSE out = << >>

\* a joined socket has typed and the other live socket got the event
C6_Witness ==
    /\ last.op = "typing"
    /\ UsersHas(users, last.id)
    /\ \E c \in sockets \ {last.id} : Delivered(c, "user_typing") = 1
    /\ Delivered(last.id, "user_typing") = 0

\* C7: a join of socket J makes exactly one users_list emit call, delivered
\* to J and to nobody else, and the list is the registry as it is right
\* after the record of J was written, entry by entry in the order of the
\* registry: J is in it, and so is every other record, online or offline.
C7_RosterToJoinerOnly ==
    /\ last.op = "join" =>
          /\ Cardinality(Calls("users_list")) = 1
          /\ \A i \in Calls("users_list") :
                /\ out[i].recipients = {last.id}
                /\ out[i].payload = UsersList(users)
                /\ Len(out[i].payload) = Len(users)
                /\ \A k \in 1..Len(users) :
                      /\ out[i].payload[k].id = users[k].id
                      /\ out[i].payload[k].username = users[k].username
                      /\ out[i].payload[k].status = users[k].status
                /\ \E k \in 1..Len(out[i].payload) :
                      out[i].payload[k].id = last.id
    /\ last.op # "join" => Calls("users_list") = {}

\* s1 joined, then s2: the roster of s2 lists s1 (offline by now, in its
\* grace window) and then s2
C7_Witness ==
    /\ last.op = "join"
    /\ last.id = "s2"
    /\ \E i \in Calls("users_list") :
          /\ Len(out[i].payload) = 2
          /\ out[i].payload[1].id = "s1"
          /\ out[i].payload[1].status = "offline"
          /\ out[i].payload[2].id = "s2"
          /\ out[i].payload[2].status = "online"

\* the one user_status_changed call of the last handler carries `payload`
\* and is delivered to every live socket
OneStatusChange(payload) ==
    /\ Cardinality(Calls("user_status_changed")) = 1
    /\ \A i \in Calls("user_status_changed") :
          /\ out[i].payload = payload
          /\ out[i].recipients = sockets
    /\ \A c \in Ids :
          Delivered(c, "user_status_changed") = IF c \in sockets THEN 1 ELSE 0

\* C8: a join of I emits one user_status_changed {I, name, online} to every
\* live socket, the joiner and the unjoined sockets included; a disconnect
\* of an I that has a record emits one {I, name of the record, offline} to
\* every socket that is still live; nothing else emits the event.
C8_StatusChangedToAll ==
    /\ last.op = "join" =>
          OneStatusChange([userId |-> last.id, username |-> last.username,
                           status |-> "online"])
    /\ (last.op = "disconnect" /\ UsersHas(users, last.id)) =>
          /\ OneStatusChange([userId |-> last.id,
                              username |-> UsersGet(users, last.id).username,
                              status |-> "offline"])
          /\ last.id \notin sockets
    /\ (\/ last.op \notin {"join", "disconnect"}
        \/ (last.op = "disconnect" /\ ~UsersHas(users, last.id))) =>
          Calls("user_status_changed") = {}

\* a join whose status change reaches the joiner and a live socket that
\* has not joined
C8_Witness ==
    /\ last.op = "join"
    /\ Delivered(last.id, "user_status_changed") = 1
    /\ \E c \in sockets \ {last.id} :
          /\ ~UsersHas(users, c)
          /\ Delivered(c, "user_status_changed") = 1

\* a closed socket whose timeout has run
Purged(id) == id \in IssuedIds /\ id \notin sockets /\ ~Pending(id)

\* C9: once the timeout set by the disconnect of a joined socket has run
\* (the socket stays closed: its id is never issued again), the socket has
\* no record and is in no roster sent afterwards; and with timers that do
\* run, the record of every closed socket is eventually removed.
C9_RemovedAfterGrace ==
    /\ [](\A id \in Ids :
            Purged(id) =>
               /\ ~UsersHas(users, id)
               /\ \A i \in Calls("users_list") :
                     \A k \in 1..Len(out[i].payload) :
                        out[i].payload[k].id # id)
    /\ \A id \in Ids :
          (id \notin sockets /\ UsersHas(users, id)) ~> ~UsersHas(users, id)

\* the timeout of a joined, closed socket has just run and removed the
\* record while the record of another socket stays
C9_Witness ==
    /\ last.op = "timeout"
    /\ last.id \notin sockets
    /\ ~Pending(last.id)
    /\ ~UsersHas(users, last.id)
    /\ users # << >>

\* C10: a socket has a record if and only if it has joined and no timeout
\* of it has run while it was not live since that join.
C10_RecordIffJoined ==
    \A id \in Ids : UsersHas(users, id) <=> id \in joined

\* one socket was removed after its grace interval while another one,
\* disconnected later, still has its offline record
C10_Witness ==
    /\ last.op = "timeout"
    /\ last.id \in IssuedIds
    /\ last.id \notin joined
    /\ ~UsersHas(users, last.id)
    /\ \E id \in joined :
          /\ id \notin sockets
          /\ UsersGet(users, id).status = "offline"

\* presence of id as the registry has it
Presence(u, id) == IF UsersHas(u, id) THEN UsersGet(u, id).status ELSE "absent"

\* C11: every socket goes absent -> online -> offline -> absent: a record
\* is online exactly while its socket is live, offline exactly while its
\* socket is closed and its timeout is pending, and gone once the timeout
\* has run; a step changes the presence of a socket only along join
\* (absent or online to online), disconnect (online to offline) and timeout
\* (offline to absent).
C11_PresenceStateMachine ==
    /\ [](\A id \in Ids :
            /\ Presence(users, id) = "online" =>
                  (id \in sockets /\ ~Pending(id))
            /\ Presence(users, id) = "offline" =>
                  (id \notin sockets /\ Pending(id))
            /\ Purged(id) => Presence(users, id) = "absent")
    /\ [][\A id \in Ids :
            Presence(users', id) # Presence(users, id) =>
               \/ /\ Presence(users, id) = "absent"
                  /\ Presence(users', id) = "online"
                  /\ last'.op = "join" /\ last'.id = id
               \/ /\ Presence(users, id) = "online"
                  /\ Presence(users', id) = "offline"
                  /\ last'.op = "disconnect" /\ last'.id = id
               \/ /\ Presence(users, id) = "offline"
                  /\ Presence(users', id) = "absent"
                  /\ last'.op = "timeout" /\ last'.id = id]_vars

\* one socket is online while the other is offline, part of the way
\* through its grace interval
C11_Witness ==
    \E a, b \in Ids :
        /\ Presence(users, a) = "online"
        /\ a \in sockets
        /\ Presence(users, b) = "offline"
        /\ b \notin sockets
        /\ elapsed[b] > 0
        /\ elapsed[b] < GRACE_MS

\* C12: timeouts are never cancelled and ask for liveness when they run: a
\* pending timeout leaves the queue only by running, whatever joins,
\* disconnects and restored sessions come in between; a record leaves the
\* registry only in the timeout of its own socket, run while that socket is
\* not live, so the record of a live socket is never removed; and a timeout
\* that finds no record for its socket leaves the registry as it is.
C12_TimeoutChecksLivenessWhenRun ==
    [][/\ IF Len(timers') < Len(timers)
          THEN /\ last'.op = "timeout"
               /\ last'.id = Head(timers).id
               /\ Head(timers).left = 0
               /\ timers' = Tail(timers)
               /\ users' = IF Head(timers).id \in sockets
                           THEN users
                           ELSE UsersDelete(users, Head(timers).id)
               /\ ~UsersHas(users, Head(timers).id) => users' = users
          ELSE \A i \in 1..Len(timers) : timers'[i].id = timers[i].id
       /\ \A id \in Ids :
             (UsersHas(users, id) /\ ~UsersHas(users', id)) =>
                /\ last'.op = "timeout"
                /\ last'.id = id
                /\ id \notin sockets
       /\ \A id \in sockets \cap sockets' :
             UsersHas(users, id) => UsersHas(users', id)]_vars

\* a timeout has just run for a socket that is live again and has rejoined:
\* its record is still there, online, while a later timeout of the same
\* socket is still pending
C12_Witness ==
    /\ last.op = "timeout"
    /\ last.id \in sockets
    /\ Presence(users, last.id) = "online"
    /\ Pending(last.id)

\* the status changes about id that the last handler generated, in the
\* order of its emit calls
StatusAbout(id) ==
    SelectSeq(out, LAMBDA e : e.event = "user_status_changed"
                              /\ e.payload.userId = id)

\* those of them that went to socket c
SeenBy(c, id) == SelectSeq(StatusAbout(id), LAMBDA e : c \in e.recipients)

\* C13: what every other live socket gets about a socket I is what the
\* server generated about I, in the same order, nothing missing and nothing
\* twice: a handler generates at most one status change about I, it carries
\* the status the record of I has from then on, and every other live socket
\* gets exactly it.  The server generates them in the order online (once
\* per join), then offline: offline only for a record that is online, that
\* is after the online of the join before it, and nothing after offline.
\* (An emit reaches its recipients in emit order: Socket.io sends the
\* packets of one connection in order.)
C13_StatusChangesInOrder ==
    /\ [](\A id \in Ids :
            /\ Len(StatusAbout(id)) <= 1
            /\ \A c \in sockets \ {id} : SeenBy(c, id) = StatusAbout(id)
            /\ StatusAbout(id) # << >> =>
                  StatusAbout(id)[1].payload.status = Presence(users, id))
    /\ [][\A id \in Ids :
            StatusAbout(id)' # << >> =>
               IF StatusAbout(id)'[1].payload.status = "offline"
               THEN Presence(users, id) = "online"
               ELSE Presence(users, id) \in {"absent", "online"}]_vars

\* a joined socket has disconnected and the other socket, live since before
\* that join, got the one offline change
C13_Witness ==
    /\ last.op = "disconnect"
    /\ Len(StatusAbout(last.id)) = 1
    /\ StatusAbout(last.id)[1].payload.status = "offline"
    /\ \E c \in sockets :
          /\ c = "s1"
          /\ last.id = "s2"
          /\ SeenBy(c, last.id) = StatusAbout(last.id)

\* C14: the username of every routed message is the username of the
\* record of the sender if there is one, and is 'Unknown' exactly when the
\* sender has no record; one message goes out either way.
C14_UsernameFromRecord ==
    last.op = "send_message" =>
        /\ Len(out) = 1
        /\ out[1].event = "receive_message"
        /\ UsersHas(users, last.id) =>
              out[1].payload.username = UsersGet(users, last.id).username
        /\ (out[1].payload.username = "Unknown") <=> ~UsersHas(users, last.id)

\* C15: a message whose target is not a live socket (never issued, or
\* closed, its offline record still in the registry or not) is delivered to
\* nobody, sender included, in any event, and leaves the registry, the
\* timers and the live sockets as they are: nothing is kept of it.
C15_DeadTargetNoEffect ==
    [][(/\ last'.op = "send_message"
        /\ last'.to # NoTarget
        /\ last'.to \notin sockets') =>
           /\ \A i \in 1..Len(out') : out'[i].recipients = {}
           /\ users' = users
           /\ timers' = timers
           /\ sockets' = sockets]_vars

\* a message to a closed socket whose offline record is still in the
\* registry went to nobody
C15_Witness ==
    /\ last.op = "send_message"
    /\ last.to \in IssuedIds \ sockets
    /\ Presence(users, last.to) = "offline"
    /\ Pending(last.to)
    /\ Len(out) = 1
    /\ out[1].recipients = {}

\* C16: the message and typing handlers leave the registry (keys,
\* usernames, statuses, order) and the pending timers as they are; the
\* registry changes only in a join, a disconnect or a timeout, and the
\* timers only in a disconnect, a timeout or as time passes.
C16_OnlyPresenceWritesRegistry ==
    [][/\ last'.op \in {"send_message", "typing"} =>
             (users' = users /\ timers' = timers)
       /\ users' # users => last'.op \in {"join", "disconnect", "timeout"}
       /\ timers' # timers => last'.op \in {"disconnect", "timeout", "tick"}]_vars

\* a socket has typed while the registry holds a record and a timeout is
\* pending
C16_Witness ==
    /\ last.op = "typing"
    /\ users # << >>
    /\ timers # << >>

\* C17: a live socket that has not joined has no record, is in no roster
\* and is the subject of no status change; its connect and its disconnect
\* emit nothing.
C17_ConnectAloneNoPresence ==
    /\ \A id \in sockets \ joined :
          /\ ~UsersHas(users, id)
          /\ StatusAbout(id) = << >>
          /\ \A i \in Calls("users_list") :
                \A k \in 1..Len(out[i].payload) : out[i].payload[k].id # id
    /\ last.op = "connect" =>
          (out = << >> /\ ~UsersHas(users, last.id))
    /\ (last.op = "disconnect" /\ last.id \notin joined) =>
          (out = << >> /\ ~UsersHas(users, last.id))

\* a socket has joined while another live socket has not: the roster
\* lists the joiner alone
C17_Witness ==
    /\ last.op = "join"
    /\ sockets \ joined # {}
    /\ \E i \in Calls("users_list") :
          /\ Len(out[i].payload) = 1
          /\ out[i].payload[1].id = last.id

\* C18: a join of a socket that already has a record overwrites it in
\* place: same number of entries, same position, every other entry
\* untouched, the entry itself online with the new username; and a join
\* repeated with the same username leaves the registry as the first left it.
C18_JoinIdempotent ==
    [][last'.op = "join" =>
          /\ UsersHas(users, last'.id) =>
                /\ Len(users') = Len(users)
                /\ IndexOf(users', last'.id) = IndexOf(users, last'.id)
                /\ \A k \in 1..Len(users) :
                      users'[k] =
                         IF k = IndexOf(users, last'.id)
                         THEN [id |-> last'.id, username |-> last'.username,
                               status |-> "online"]
                         ELSE users[k]
          /\ (/\ last.op = "join"
              /\ last.id = last'.id
              /\ last.username = last'.username) => users' = users]_vars

\* the socket that joined first has joined again while the other one, which
\* joined after it, is offline: it still comes first of two
C18_Witness ==
    /\ last.op = "join"
    /\ last.id = "s1"
    /\ last.username = "alice"
    /\ Len(users) = 2
    /\ users[1] = [id |-> "s1", username |-> "alice", status |-> "online"]
    /\ users[2].id = "s2"
    /\ users[2].status = "offline"

\* C19: no record leaks: the record of every socket that is not live is
\* offline and has a timeout pending for it; so, with timers that run, once
\* no socket disconnects any more the registry ends up holding records of
\* live sockets only.
C19_NoRecordLeak ==
    /\ [](\A id \in Ids :
            (UsersHas(users, id) /\ id \notin sockets) =>
               /\ UsersGet(users, id).status = "offline"
               /\ Pending(id))
    /\ (<>[][sockets \subseteq sockets']_vars) =>
          <>[](\A id \in Ids : UsersHas(users, id) => id \in sockets)

\* both sockets are closed, both records are offline, and the timeout of
\* the first is due while the second one still waits
C19_Witness ==
    /\ sockets = {}
    /\ Len(users) = 2
    /\ Len(timers) = 2
    /\ \A i \in 1..2 : users[i].status = "offline" /\ Pending(users[i].id)
    /\ timers[1].left = 0
    /\ timers[2].left > 0

\* C20: a message whose target is the sender goes to nobody, and no socket
\* ever gets a receive_message whose from is its own id, in the private
\* branch or in the broadcast branch.
C20_NeverBackToSender ==
    /\ \A i \in Calls("receive_message") :
          out[i].payload.from \notin out[i].recipients
    /\ (last.op = "send_message" /\ last.to = last.id) =>
          /\ Len(out) = 1
          /\ out[1].payload.isPrivate = TRUE
          /\ \A c \in Ids : Delivered(c, "receive_message") = 0

\* a joined socket has sent a message to itself while the other socket is
\* live: nobody got it
C20_Witness ==
    /\ last.op = "send_message"
    /\ last.to = last.id
    /\ UsersHas(users, last.id)
    /\ sockets = Ids
    /\ out[1].recipients = {}

====
